---- MODULE Spec2Model ----
(***************************************************************************)
(* Model of the WebSocket connection registry and fan-out engine           *)
(* (backend/app/services/websocket_manager.py) and of the /ws endpoint     *)
(* that drives it (backend/app/main.py).                                   *)
(*                                                                         *)
(* The manager runs on one asyncio event loop: a coroutine runs without    *)
(* interruption until it awaits the transport (accept, send_text,          *)
(* receive_text, close) or sleeps.  Each action below is one such          *)
(* uninterrupted section.  A coroutine suspended in an await is a frame in *)
(* `calls`; resuming it draws the transport's outcome (success or an       *)
(* exception) from BOOLEAN.                                                *)
(***************************************************************************)
EXTENDS Integers, Sequences, FiniteSets, TLC

\* ------------------------------------------------------------------ bounds
NumConns == 2
NumClients == 1
MaxTime == 2
\* cleanup_stale_connections(max_age_minutes = 60); the model's clock counts
\* in units of that threshold.
StaleAge == 1

Conns == 1..NumConns
Channels == {"realtime_metrics", "data_updates"}
\* Tasks 1..NumConns serve one connection each in the endpoint system; two
\* more are the maintenance loop and the application's producer.  When the
\* manager is driven directly, the first NumClients tasks make the
\* structural calls and the producer makes the sends and passes.
Tasks == 1..(NumConns + 2)
BackgroundTask == NumConns + 1
ProducerTask == NumConns + 2
Clients == 1..NumClients
Producers == {ProducerTask}
Callers == Clients \cup Producers
\* None: no task, no connection, no channel.
NoTask == CHOOSE n \in 0..(NumConns + 2) : n \notin Tasks
NoConn == CHOOSE n \in 0..NumConns : n \notin Conns
NoChannel == ""

VARIABLES
    active_connections,    \* List[WebSocket]
    subscriptions,         \* Dict[str, Set[WebSocket]]
    connection_metadata,   \* Dict[WebSocket, {'subscriptions', 'last_ping'}]
    now,                   \* datetime.utcnow()
    calls,                 \* per task: the coroutine frame it is in
    running,               \* the task holding the event loop, or NoTask
    accepted_handles,      \* handles connect() was ever called on
    max_in_flight,         \* how many calls the callers keep in flight at once
    pre,                   \* registry when the one call in flight began
    removed_handles        \* handles a disconnect has taken off the live list

vars == <<active_connections, subscriptions, connection_metadata, now, calls,
          running, accepted_handles, max_in_flight, pre, removed_handles>>

\* ---------------------------------------------------------------- helpers
Range(s) == {s[i] : i \in DOMAIN s}

\* list.remove(x): removes the first occurrence.
ListRemove(s, x) ==
    LET i == CHOOSE k \in DOMAIN s : s[k] = x /\ \A j \in 1..(k - 1) : s[j] # x
    IN  SubSeq(s, 1, i - 1) \o SubSeq(s, i + 1, Len(s))

Restrict(f, S) == [x \in S |-> f[x]]

\* The three attributes of a WebSocketManager as one value.
Registry == [active_connections |-> active_connections,
             subscriptions |-> subscriptions,
             connection_metadata |-> connection_metadata]

EmptyRegistry == [active_connections |-> <<>>,
                  subscriptions |-> [ch \in {} |-> {}],
                  connection_metadata |-> [c \in {} |-> {}]]

\* ------------------------------------------------- the manager's sync code
\* A connect whose new record starts with every channel of the channel map.
connect_register_subscribed(r, websocket, t) ==
    [r EXCEPT
        !.active_connections = Append(@, websocket),
        !.connection_metadata =
            [c \in DOMAIN @ \cup {websocket} |->
                IF c = websocket
                THEN [subscriptions |-> DOMAIN r.subscriptions, last_ping |-> t]
                ELSE @[c]]]

\* connect, after `await websocket.accept()` and up to the welcome send.
connect_register(r, websocket, t) ==
    [r EXCEPT
        !.active_connections = Append(@, websocket),
        !.connection_metadata =
            [c \in DOMAIN @ \cup {websocket} |->
                IF c = websocket
                THEN [subscriptions |-> {}, last_ping |-> t]
                ELSE @[c]]]

\* disconnect: the channels it purges are those of the metadata record.
disconnect_purge(r, websocket) ==
    IF websocket \in DOMAIN r.connection_metadata
    THEN LET own == r.connection_metadata[websocket].subscriptions
             hit == own \cap DOMAIN r.subscriptions
             keep == {ch \in DOMAIN r.subscriptions :
                        ch \in hit => r.subscriptions[ch] \ {websocket} # {}}
         IN  [ch \in keep |->
                IF ch \in hit THEN r.subscriptions[ch] \ {websocket}
                ELSE r.subscriptions[ch]]
    ELSE r.subscriptions

\* A disconnect that forgets the metadata record.
disconnect_keeps_metadata(r, websocket) ==
    [active_connections |->
        IF websocket \in Range(r.active_connections)
        THEN ListRemove(r.active_connections, websocket)
        ELSE r.active_connections,
     subscriptions |-> disconnect_purge(r, websocket),
     connection_metadata |-> r.connection_metadata]

\* A disconnect that drops the record only of a connection already off the
\* list.
disconnect_lazy(r, websocket) ==
    [active_connections |->
        IF websocket \in Range(r.active_connections)
        THEN ListRemove(r.active_connections, websocket)
        ELSE r.active_connections,
     subscriptions |-> disconnect_purge(r, websocket),
     connection_metadata |->
        IF websocket \in Range(r.active_connections)
        THEN r.connection_metadata
        ELSE Restrict(r.connection_metadata,
                      DOMAIN r.connection_metadata \ {websocket})]

disconnect(r, websocket) ==
    [active_connections |->
        IF websocket \in Range(r.active_connections)
        THEN ListRemove(r.active_connections, websocket)
        ELSE r.active_connections,
     subscriptions |-> disconnect_purge(r, websocket),
     connection_metadata |->
        Restrict(r.connection_metadata,
                 DOMAIN r.connection_metadata \ {websocket})]

\* `for connection in disconnected: self.disconnect(connection)`
RECURSIVE disconnect_each(_, _)
disconnect_each(r, disconnected) ==
    IF disconnected = <<>> THEN r
    ELSE disconnect_each(disconnect(r, Head(disconnected)), Tail(disconnected))

\* A subscribe that leaves the metadata record for later.
subscribe_register_channel_only(r, websocket, channel) ==
    [r EXCEPT
        !.subscriptions =
            [ch \in DOMAIN @ \cup {channel} |->
                IF ch = channel
                THEN (IF ch \in DOMAIN @ THEN @[ch] ELSE {}) \cup {websocket}
                ELSE @[ch]]]

\* subscribe, up to the confirmation send.
subscribe_register(r, websocket, channel) ==
    [r EXCEPT
        !.subscriptions =
            [ch \in DOMAIN @ \cup {channel} |->
                IF ch = channel
                THEN (IF ch \in DOMAIN @ THEN @[ch] ELSE {}) \cup {websocket}
                ELSE @[ch]],
        !.connection_metadata =
            IF websocket \in DOMAIN @
            THEN [@ EXCEPT ![websocket].subscriptions = @ \cup {channel}]
            ELSE @]

\* An unsubscribe that leaves the emptied set in the channel map.
unsubscribe_register_keeps_empty(r, websocket, channel) ==
    [r EXCEPT
        !.subscriptions =
            IF channel \in DOMAIN @
            THEN [@ EXCEPT ![channel] = @ \ {websocket}]
            ELSE @,
        !.connection_metadata =
            IF websocket \in DOMAIN @
            THEN [@ EXCEPT ![websocket].subscriptions = @ \ {channel}]
            ELSE @]

\* An unsubscribe that takes the connection out of every channel.
unsubscribe_register_everywhere(r, websocket, channel) ==
    [r EXCEPT
        !.subscriptions = disconnect_purge(r, websocket),
        !.connection_metadata =
            IF websocket \in DOMAIN @
            THEN [@ EXCEPT ![websocket].subscriptions = {}]
            ELSE @]

\* An unsubscribe that leaves the metadata record as it is.
unsubscribe_register_channel_only(r, websocket, channel) ==
    [r EXCEPT
        !.subscriptions =
            IF channel \in DOMAIN @
            THEN IF @[channel] \ {websocket} = {}
                 THEN Restrict(@, DOMAIN @ \ {channel})
                 ELSE [@ EXCEPT ![channel] = @ \ {websocket}]
            ELSE @]

\* unsubscribe, up to the confirmation send.
unsubscribe_register(r, websocket, channel) ==
    [r EXCEPT
        !.subscriptions =
            IF channel \in DOMAIN @
            THEN IF @[channel] \ {websocket} = {}
                 THEN Restrict(@, DOMAIN @ \ {channel})
                 ELSE [@ EXCEPT ![channel] = @ \ {websocket}]
            ELSE @,
        !.connection_metadata =
            IF websocket \in DOMAIN @
            THEN [@ EXCEPT ![websocket].subscriptions = @ \ {channel}]
            ELSE @]

\* A ping that leaves last_ping as it was.
ping_touch_skipped(r, connection, t) == r

\* A ping that writes last_ping whether or not the record is still there.
ping_touch_unguarded(r, connection, t) ==
    [r EXCEPT !.connection_metadata =
        [c \in DOMAIN @ \cup {connection} |->
            IF c = connection
            THEN [subscriptions |->
                     IF c \in DOMAIN @ THEN @[c].subscriptions ELSE {},
                  last_ping |-> t]
            ELSE @[c]]]

\* ping_connections, after a successful send.
ping_touch(r, connection, t) ==
    IF connection \in DOMAIN r.connection_metadata
    THEN [r EXCEPT !.connection_metadata[connection].last_ping = t]
    ELSE r

\* cleanup_stale_connections: the connections it collects.
IsStale(r, connection, t) ==
    r.connection_metadata[connection].last_ping < t - StaleAge

\* get_connection_stats(): the snapshot it returns (connected_at, which no
\* operation reads, is left out).  The details are one entry per metadata
\* record; they are kept as a bag, the order of the list being that of the
\* metadata dict.
get_connection_stats(r) ==
    [total_connections |-> Len(r.active_connections),
     channels |-> [ch \in DOMAIN r.subscriptions |->
                      Cardinality(r.subscriptions[ch])],
     connection_details |->
        LET metadata == {r.connection_metadata[c] :
                            c \in DOMAIN r.connection_metadata}
        IN  [m \in metadata |->
                Cardinality({c \in DOMAIN r.connection_metadata :
                                r.connection_metadata[c] = m})]]

\* ------------------------------------------------------- coroutine frames
\* op: the coroutine; pc: the await it is suspended in ("accept", "send",
\* "close", "receive", "sleep"), "returned" / "raised" once it is over, or
\* "ignored" while the handler passes over a frame.
\* idx is the position of a list iterator; it/used/detached are a set
\* iterator (the elements still ahead of it, the size it was created with,
\* and whether its set object has left the channel map).  attempted lists
\* the connections the call has handed a send to, stayed the connections
\* of its pass that nobody has removed since it began.  began is the time
\* of the call and gone, in a pass, the handles disconnect had removed by then;
\* tick_stale, in the maintenance loop, the connections that were stale
\* when the iteration began and tick_pinged those its ping sweep reached
\* with a successful send.  stats is what get_connection_stats returned.
Idle == [op |-> "idle", pc |-> "idle", websocket |-> NoConn,
         channel |-> NoChannel, idx |-> 0, it |-> {}, used |-> 0,
         detached |-> FALSE, disconnected |-> <<>>, attempted |-> <<>>,
         stayed |-> {}, stale_connections |-> <<>>,
         began |-> 0, gone |-> {}, tick_stale |-> {}, tick_pinged |-> {},
         stats |-> get_connection_stats(EmptyRegistry)]

Frame(op, pc, websocket, channel) ==
    [Idle EXCEPT !.op = op, !.pc = pc, !.websocket = websocket,
                 !.channel = channel, !.began = now]

\* The except clause of a pass (`disconnected.append(connection)`) leaves
\* the registry as it is; a variant that disconnects on the spot.
except_disconnect(r, f) == disconnect_each(r, f.disconnected)

\* A variant that disconnects the connection just sent to, failed or not.
except_evict(r, f) == disconnect(r, f.websocket)

except_collect(r, f) == r

\* The frame after a send: a failed one is noted in `disconnected`.
Collected(f, ok) ==
    [f EXCEPT !.disconnected = IF ok THEN @ ELSE Append(@, f.websocket)]

Over(f) == f.pc \in {"returned", "raised"}
InFlight == {t \in Tasks : calls[t].op # "idle"}
Quiet == running = NoTask

SetRegistry(r) ==
    /\ active_connections' = r.active_connections
    /\ subscriptions' = r.subscriptions
    /\ connection_metadata' = r.connection_metadata

\* What a change of the registry does to the iterators suspended over it.
\* A set iterator loses the elements discarded from its set; an element
\* added lands ahead of it or behind it (ahead, by its hash slot), and one
\* it has yielded before takes its old slot again, behind it (the table of
\* so small a set is not resized); when the channel's entry is deleted the
\* iterator keeps the emptied set object.
AdjustFrame(f, old, new, ahead) ==
    IF f.pc # "send" THEN f
    ELSE IF f.op = "broadcast_to_channel"
    THEN IF f.detached THEN f
         ELSE IF f.channel \notin DOMAIN new.subscriptions
         THEN [f EXCEPT !.detached = TRUE, !.it = {}, !.stayed = {}]
         ELSE LET o == old.subscriptions[f.channel]
                  n == new.subscriptions[f.channel]
              IN  [f EXCEPT !.it = (@ \ (o \ n))
                                    \cup (((n \ o) \cap ahead) \ Range(f.attempted)),
                            !.stayed = @ \ (o \ n)]
    ELSE IF f.op \in {"broadcast", "ping_connections"}
    THEN [f EXCEPT !.stayed = @ \cap Range(new.active_connections)]
    ELSE f

\* The registry becomes r and the frames become c.
Commit(r, c) ==
    LET old == Registry
        watchers == {t \in Tasks :
                        /\ c[t].op = "broadcast_to_channel"
                        /\ c[t].pc = "send"
                        /\ ~c[t].detached
                        /\ c[t].channel \in DOMAIN r.subscriptions
                        /\ r.subscriptions[c[t].channel]
                             \ old.subscriptions[c[t].channel] # {}}
    IN  /\ SetRegistry(r)
        /\ removed_handles' =
              removed_handles
                 \cup (Range(old.active_connections) \ Range(r.active_connections))
        /\ \E ahead \in SUBSET watchers :
              calls' = [t \in Tasks |->
                          AdjustFrame(c[t], old, r,
                                      IF t \in ahead THEN Conns ELSE {})]

\* A caller may start a call when the loop is free and it has none running.
CanCall(t, role) ==
    /\ Quiet
    /\ t \in role
    /\ calls[t].op = "idle"
    /\ Cardinality(InFlight) < max_in_flight

Snapshot == pre' = IF max_in_flight = 1 THEN Registry ELSE pre

\* ------------------------------------------------------------ the manager
Init ==
    /\ active_connections = <<>>
    /\ subscriptions = [ch \in {} |-> {}]
    /\ connection_metadata = [c \in {} |-> {}]
    /\ now = 0
    /\ calls = [t \in Tasks |-> Idle]
    /\ running = NoTask
    /\ accepted_handles = {}
    /\ max_in_flight = Cardinality(Callers)
    /\ pre = EmptyRegistry
    /\ removed_handles = {}

\* datetime.utcnow() advances while the loop is between coroutines.
Tick ==
    /\ Quiet
    /\ now < MaxTime
    /\ now' = now + 1
    /\ UNCHANGED <<active_connections, subscriptions, connection_metadata,
                   calls, running, accepted_handles, max_in_flight, pre,
                   removed_handles>>

\* connect(websocket): suspends in `await websocket.accept()`.  A handle is
\* passed to connect at most once (every session is a new WebSocket object).
connect_call(t, websocket) ==
    /\ CanCall(t, Clients)
    /\ websocket \notin accepted_handles
    /\ accepted_handles' = accepted_handles \cup {websocket}
    /\ Commit(Registry,
              [calls EXCEPT ![t] = Frame("connect", "accept", websocket, NoChannel)])
    /\ Snapshot
    /\ UNCHANGED <<now, running, max_in_flight>>

\* accept() returns: register, then suspend in the welcome send; or accept()
\* raises and connect raises with it.
connect_resume(t) ==
    /\ Quiet
    /\ calls[t].op = "connect"
    /\ calls[t].pc = "accept"
    /\ \E ok \in BOOLEAN :
          IF ok
          THEN /\ Commit(connect_register(Registry, calls[t].websocket, now),
                         [calls EXCEPT ![t] =
                            [@ EXCEPT !.pc = "send",
                                      !.attempted = <<calls[t].websocket>>]])
               /\ running' = NoTask
          ELSE /\ Commit(Registry, [calls EXCEPT ![t] = [@ EXCEPT !.pc = "raised"]])
               /\ running' = t
    /\ UNCHANGED <<now, accepted_handles, max_in_flight, pre>>

\* disconnect(websocket) has no await: it is over when it is called.
disconnect_call(t, websocket) ==
    /\ CanCall(t, Clients)
    /\ Commit(disconnect(Registry, websocket),
              [calls EXCEPT ![t] = Frame("disconnect", "returned", websocket, NoChannel)])
    /\ running' = t
    /\ Snapshot
    /\ UNCHANGED <<now, accepted_handles, max_in_flight>>

\* send_personal_message(websocket, message) called on its own.
send_personal_message_call(t, websocket) ==
    /\ CanCall(t, Producers)
    /\ Commit(Registry,
              [calls EXCEPT ![t] =
                 [Frame("send_personal_message", "send", websocket, NoChannel)
                    EXCEPT !.attempted = <<websocket>>]])
    /\ Snapshot
    /\ UNCHANGED <<now, running, accepted_handles, max_in_flight>>

\* The send of send_personal_message is over, in connect, subscribe,
\* unsubscribe or on its own: a failure is absorbed by disconnect.
send_personal_message_resume(t) ==
    /\ Quiet
    /\ calls[t].op \in {"connect", "subscribe", "unsubscribe", "send_personal_message"}
    /\ calls[t].pc = "send"
    /\ \E ok \in BOOLEAN :
          Commit(IF ok THEN Registry ELSE disconnect(Registry, calls[t].websocket),
                 [calls EXCEPT ![t] = [Collected(@, ok) EXCEPT !.pc = "returned"]])
    /\ running' = t
    /\ UNCHANGED <<now, accepted_handles, max_in_flight, pre>>

subscribe_call(t, websocket, channel) ==
    /\ CanCall(t, Clients)
    /\ Commit(subscribe_register(Registry, websocket, channel),
              [calls EXCEPT ![t] =
                 [Frame("subscribe", "send", websocket, channel)
                    EXCEPT !.attempted = <<websocket>>]])
    /\ Snapshot
    /\ UNCHANGED <<now, running, accepted_handles, max_in_flight>>

unsubscribe_call(t, websocket, channel) ==
    /\ CanCall(t, Clients)
    /\ Commit(unsubscribe_register(Registry, websocket, channel),
              [calls EXCEPT ![t] =
                 [Frame("unsubscribe", "send", websocket, channel)
                    EXCEPT !.attempted = <<websocket>>]])
    /\ Snapshot
    /\ UNCHANGED <<now, running, accepted_handles, max_in_flight>>

\* A pass over self.active_connections (broadcast, ping_connections) uses a
\* list iterator: it reads the element at its index in the list as the list
\* is at that moment, and ends when the index reaches the list's length.
\* A pass that a failed send ends.
ListHasNext_until_failure(f, lst) == f.idx < Len(lst) /\ f.disconnected = <<>>

\* The failures collected so far (f.disconnected) do not end the pass.
ListHasNext(f, lst) == f.idx < Len(lst)

\* A pass that moves on without having handed the message over.
ListAdvance_deferred(f, lst) ==
    [f EXCEPT !.websocket = lst[f.idx + 1],
              !.idx = @ + 1]

ListAdvance(f, lst) ==
    [f EXCEPT !.websocket = lst[f.idx + 1],
              !.idx = @ + 1,
              !.attempted = Append(@, lst[f.idx + 1])]


Finished(f, pc) == [f EXCEPT !.pc = pc, !.websocket = NoConn]

\* broadcast(message): returns at once when nobody is connected.
broadcast_call(t) ==
    /\ CanCall(t, Producers)
    /\ IF active_connections = <<>>
       THEN /\ Commit(Registry,
                      [calls EXCEPT ![t] = Frame("broadcast", "returned", NoConn, NoChannel)])
            /\ running' = t
       ELSE /\ Commit(Registry,
                      [calls EXCEPT ![t] =
                         ListAdvance([Frame("broadcast", "send", NoConn, NoChannel)
                                        EXCEPT !.stayed = Range(active_connections),
                                               !.gone = removed_handles],
                                     active_connections)])
            /\ running' = NoTask
    /\ Snapshot
    /\ UNCHANGED <<now, accepted_handles, max_in_flight>>

\* A send of the pass is over: collect the failure, go on to the next
\* element, or disconnect the collected connections and return.
broadcast_resume(t) ==
    /\ Quiet
    /\ calls[t].op = "broadcast"
    /\ calls[t].pc = "send"
    /\ \E ok \in BOOLEAN :
          LET f == Collected(calls[t], ok)
          IN  IF ListHasNext(f, active_connections)
              THEN /\ Commit(except_collect(Registry, f),
                             [calls EXCEPT ![t] = ListAdvance(f, active_connections)])
                   /\ running' = NoTask
              ELSE /\ Commit(disconnect_each(Registry, f.disconnected),
                             [calls EXCEPT ![t] = Finished(f, "returned")])
                   /\ running' = t
    /\ UNCHANGED <<now, accepted_handles, max_in_flight, pre>>

\* ping_connections(): the same pass, without the early return.
ping_connections_call(t) ==
    /\ CanCall(t, Producers)
    /\ IF active_connections = <<>>
       THEN /\ Commit(Registry,
                      [calls EXCEPT ![t] =
                         Frame("ping_connections", "returned", NoConn, NoChannel)])
            /\ running' = t
       ELSE /\ Commit(Registry,
                      [calls EXCEPT ![t] =
                         ListAdvance([Frame("ping_connections", "send", NoConn, NoChannel)
                                        EXCEPT !.stayed = Range(active_connections),
                                               !.gone = removed_handles],
                                     active_connections)])
            /\ running' = NoTask
    /\ Snapshot
    /\ UNCHANGED <<now, accepted_handles, max_in_flight>>

\* A ping is over: on success last_ping is set if the record still exists.
ping_connections_resume(t) ==
    /\ Quiet
    /\ calls[t].op = "ping_connections"
    /\ calls[t].pc = "send"
    /\ \E ok \in BOOLEAN :
          LET f == Collected(calls[t], ok)
              touched == IF ok THEN ping_touch(Registry, f.websocket, now)
                         ELSE except_collect(Registry, f)
          IN  IF ListHasNext(f, active_connections)
              THEN /\ Commit(touched,
                             [calls EXCEPT ![t] = ListAdvance(f, active_connections)])
                   /\ running' = NoTask
              ELSE /\ Commit(disconnect_each(touched, f.disconnected),
                             [calls EXCEPT ![t] = Finished(f, "returned")])
                   /\ running' = t
    /\ UNCHANGED <<now, accepted_handles, max_in_flight, pre>>

\* A pass over self.subscriptions[channel] uses a set iterator: its next()
\* raises RuntimeError when the set's size differs from the size the
\* iterator was created with; otherwise it yields an element still ahead.
SetIterBroken(f, r) ==
    \/ f.detached
    \/ Cardinality(r.subscriptions[f.channel]) # f.used

SetAdvance(f, x) ==
    [f EXCEPT !.websocket = x,
              !.it = @ \ {x},
              !.attempted = Append(@, x)]

\* A pass over everybody connected instead of the channel's subscribers.
Subscribers_everyone(r, channel) == Range(r.active_connections)

\* `for connection in self.subscriptions[channel]`: the set the pass is over.
Subscribers(r, channel) == r.subscriptions[channel]

SetIterator(r, channel) ==
    [Frame("broadcast_to_channel", "send", NoConn, channel)
        EXCEPT !.it = Subscribers(r, channel),
               !.used = Cardinality(Subscribers(r, channel)),
               !.stayed = Subscribers(r, channel),
               !.gone = removed_handles]

\* broadcast_to_channel(channel, message): returns at once when the channel
\* has no entry.
broadcast_to_channel_call(t, channel) ==
    /\ CanCall(t, Producers)
    /\ IF channel \notin DOMAIN subscriptions
       THEN /\ Commit(Registry,
                      [calls EXCEPT ![t] =
                         Frame("broadcast_to_channel", "returned", NoConn, channel)])
            /\ running' = t
       ELSE /\ \E x \in SetIterator(Registry, channel).it :
                 Commit(Registry,
                        [calls EXCEPT ![t] =
                           SetAdvance(SetIterator(Registry, channel), x)])
            /\ running' = NoTask
    /\ Snapshot
    /\ UNCHANGED <<now, accepted_handles, max_in_flight>>

\* A send of the pass is over.  The RuntimeError of the iterator is raised
\* by the `for` statement, outside the try block of the loop body.
broadcast_to_channel_resume(t) ==
    /\ Quiet
    /\ calls[t].op = "broadcast_to_channel"
    /\ calls[t].pc = "send"
    /\ \E ok \in BOOLEAN :
          LET f == Collected(calls[t], ok)
          IN  IF SetIterBroken(f, Registry)
              THEN /\ Commit(Registry, [calls EXCEPT ![t] = Finished(f, "raised")])
                   /\ running' = t
              ELSE IF f.it = {}
              THEN /\ Commit(disconnect_each(Registry, f.disconnected),
                             [calls EXCEPT ![t] = Finished(f, "returned")])
                   /\ running' = t
              ELSE /\ \E x \in f.it :
                        Commit(except_collect(Registry, f),
                               [calls EXCEPT ![t] = SetAdvance(f, x)])
                   /\ running' = NoTask
    /\ UNCHANGED <<now, accepted_handles, max_in_flight, pre>>

\* cleanup_stale_connections(): collects the stale connections (the metadata
\* dict iterates in insertion order, the order of active_connections), then
\* for each: disconnect, and suspend in `await connection.close()`.
StaleConnections(r, t) ==
    SelectSeq(r.active_connections,
              LAMBDA c : c \in DOMAIN r.connection_metadata /\ IsStale(r, c, t))

CleanupStep(t, f, stale) ==
    IF stale = <<>>
    THEN /\ Commit(Registry, [calls EXCEPT ![t] = Finished(f, "returned")])
         /\ running' = t
    ELSE /\ Commit(disconnect(Registry, Head(stale)),
                   [calls EXCEPT ![t] =
                      [f EXCEPT !.pc = "close", !.websocket = Head(stale),
                                !.stale_connections = Tail(stale)]])
         /\ running' = NoTask

cleanup_stale_connections_call(t) ==
    /\ CanCall(t, Producers)
    /\ CleanupStep(t, Frame("cleanup_stale_connections", "close", NoConn, NoChannel),
                   StaleConnections(Registry, now))
    /\ Snapshot
    /\ UNCHANGED <<now, accepted_handles, max_in_flight>>

\* close() is over; an exception it raised is swallowed.
cleanup_stale_connections_resume(t) ==
    /\ Quiet
    /\ calls[t].op = "cleanup_stale_connections"
    /\ calls[t].pc = "close"
    /\ \E ok \in BOOLEAN :
          CleanupStep(t, calls[t], calls[t].stale_connections)
    /\ UNCHANGED <<now, accepted_handles, max_in_flight, pre>>

\* A stats call that empties the channel map as it counts.
get_connection_stats_popitem(t) ==
    /\ CanCall(t, Producers)
    /\ Commit([Registry EXCEPT !.subscriptions = [ch \in {} |-> {}]],
              [calls EXCEPT ![t] =
                 [Frame("get_connection_stats", "returned", NoConn, NoChannel)
                    EXCEPT !.stats = get_connection_stats(Registry)]])
    /\ running' = t
    /\ Snapshot
    /\ UNCHANGED <<now, accepted_handles, max_in_flight>>

\* get_connection_stats() has no await: it reads the registry and returns.
get_connection_stats_call(t) ==
    /\ CanCall(t, Producers)
    /\ Commit(Registry,
              [calls EXCEPT ![t] =
                 [Frame("get_connection_stats", "returned", NoConn, NoChannel)
                    EXCEPT !.stats = get_connection_stats(Registry)]])
    /\ running' = t
    /\ Snapshot
    /\ UNCHANGED <<now, accepted_handles, max_in_flight>>

\* The call is over and its caller has the loop: the frame is dropped.
Return(t) ==
    /\ running = t
    /\ t \in Callers
    /\ Over(calls[t])
    /\ calls' = [calls EXCEPT ![t] = Idle]
    /\ running' = NoTask
    /\ pre' = EmptyRegistry
    /\ UNCHANGED <<active_connections, subscriptions, connection_metadata, now,
                   accepted_handles, max_in_flight, removed_handles>>

Next ==
    \/ \E t \in Tasks :
          \/ \E websocket \in Conns :
                \/ connect_call(t, websocket)
                \/ disconnect_call(t, websocket)
                \/ send_personal_message_call(t, websocket)
                \/ \E channel \in Channels :
                      \/ subscribe_call(t, websocket, channel)
                      \/ unsubscribe_call(t, websocket, channel)
          \/ connect_resume(t)
          \/ send_personal_message_resume(t)
          \/ broadcast_call(t)
          \/ broadcast_resume(t)
          \/ \E channel \in Channels : broadcast_to_channel_call(t, channel)
          \/ broadcast_to_channel_resume(t)
          \/ ping_connections_call(t)
          \/ ping_connections_resume(t)
          \/ get_connection_stats_call(t)
          \/ Return(t)

\* A producer's pass overlapping the clients' structural calls.
Spec == Init /\ [][Next]_vars

\* Callers that run every call to completion before the next one.
InitSeq ==
    /\ active_connections = <<>>
    /\ subscriptions = [ch \in {} |-> {}]
    /\ connection_metadata = [c \in {} |-> {}]
    /\ now = 0
    /\ calls = [t \in Tasks |-> Idle]
    /\ running = NoTask
    /\ accepted_handles = {}
    /\ max_in_flight = 1
    /\ pre = EmptyRegistry
    /\ removed_handles = {}

NextSeq ==
    \/ Next
    \/ Tick
    \/ \E t \in Tasks :
          \/ cleanup_stale_connections_call(t)
          \/ cleanup_stale_connections_resume(t)

SpecSeq == InitSeq /\ [][NextSeq]_vars

\* ------------------------------------------------------ the /ws endpoint
\* websocket_endpoint(websocket), served by task `websocket`: it awaits
\* connect outside its try block.
endpoint_open(websocket) ==
    /\ Quiet
    /\ calls[websocket].op = "idle"
    /\ websocket \notin accepted_handles
    /\ accepted_handles' = accepted_handles \cup {websocket}
    /\ Commit(Registry,
              [calls EXCEPT ![websocket] =
                 Frame("connect", "accept", websocket, NoChannel)])
    /\ UNCHANGED <<now, running, max_in_flight, pre>>

\* connect, subscribe or unsubscribe is over, or the frame received was
\* none for the two branches: back to `await websocket.receive_text()`; an
\* exception of connect ends the handler.
endpoint_loop(websocket) ==
    /\ running = websocket
    /\ websocket \in Conns
    /\ \/ /\ calls[websocket].op \in {"connect", "subscribe", "unsubscribe"}
          /\ Over(calls[websocket])
       \/ /\ calls[websocket].op = "websocket_endpoint"
          /\ calls[websocket].pc = "ignored"
    /\ Commit(Registry,
              [calls EXCEPT ![websocket] =
                 Frame("websocket_endpoint",
                       IF calls[websocket].pc = "raised" THEN "raised" ELSE "receive",
                       websocket, NoChannel)])
    /\ running' = NoTask
    /\ UNCHANGED <<now, accepted_handles, max_in_flight, pre>>

\* What receive_text() and the parsing of the frame can come to.
Inbound == {"subscribe", "unsubscribe", "other", "WebSocketDisconnect", "Exception"}

\* A handler that takes a frame of any other type for an error: it
\* disconnects and ends.
endpoint_receive_strict(websocket) ==
    /\ Quiet
    /\ calls[websocket].op = "websocket_endpoint"
    /\ calls[websocket].pc = "receive"
    /\ \E kind \in Inbound, channel \in Channels :
          CASE kind = "subscribe" ->
                 Commit(subscribe_register(Registry, websocket, channel),
                        [calls EXCEPT ![websocket] =
                           [Frame("subscribe", "send", websocket, channel)
                              EXCEPT !.attempted = <<websocket>>]])
            [] kind = "unsubscribe" ->
                 Commit(unsubscribe_register(Registry, websocket, channel),
                        [calls EXCEPT ![websocket] =
                           [Frame("unsubscribe", "send", websocket, channel)
                              EXCEPT !.attempted = <<websocket>>]])
            [] kind = "other" ->
                 Commit(disconnect(Registry, websocket),
                        [calls EXCEPT ![websocket] =
                           Frame("websocket_endpoint", "ignored", websocket, NoChannel)])
            [] OTHER ->
                 Commit(disconnect(Registry, websocket),
                        [calls EXCEPT ![websocket] =
                           Frame("websocket_endpoint", "returned", websocket, NoChannel)])
    /\ running' = IF calls'[websocket].pc = "ignored" THEN websocket ELSE running
    /\ UNCHANGED <<now, accepted_handles, max_in_flight, pre>>

\* receive_text() is over: a frame is routed, or passed over (the handler
\* holds the loop until it is back at receive_text), or the exception
\* handlers call disconnect and the handler ends.
endpoint_receive(websocket) ==
    /\ Quiet
    /\ calls[websocket].op = "websocket_endpoint"
    /\ calls[websocket].pc = "receive"
    /\ \E kind \in Inbound, channel \in Channels :
          CASE kind = "subscribe" ->
                 Commit(subscribe_register(Registry, websocket, channel),
                        [calls EXCEPT ![websocket] =
                           [Frame("subscribe", "send", websocket, channel)
                              EXCEPT !.attempted = <<websocket>>]])
            [] kind = "unsubscribe" ->
                 Commit(unsubscribe_register(Registry, websocket, channel),
                        [calls EXCEPT ![websocket] =
                           [Frame("unsubscribe", "send", websocket, channel)
                              EXCEPT !.attempted = <<websocket>>]])
            [] kind = "other" ->
                 Commit(Registry,
                        [calls EXCEPT ![websocket] =
                           Frame("websocket_endpoint", "ignored", websocket, NoChannel)])
            [] OTHER ->
                 Commit(disconnect(Registry, websocket),
                        [calls EXCEPT ![websocket] =
                           Frame("websocket_endpoint", "returned", websocket, NoChannel)])
    /\ running' = IF calls'[websocket].pc = "ignored" THEN websocket ELSE running
    /\ UNCHANGED <<now, accepted_handles, max_in_flight, pre>>

\* ---------------------------------------------- websocket_background_task
\* The top of the loop: the task starts, or its sleep is over.
background_ping ==
    LET t == BackgroundTask IN
    /\ Quiet
    /\ \/ calls[t].op = "idle"
       \/ calls[t].op = "websocket_background_task" /\ calls[t].pc = "sleep"
    /\ IF active_connections = <<>>
       THEN /\ Commit(Registry,
                      [calls EXCEPT ![t] =
                         Frame("ping_connections", "returned", NoConn, NoChannel)])
            /\ running' = t
       ELSE /\ Commit(Registry,
                      [calls EXCEPT ![t] =
                         ListAdvance([Frame("ping_connections", "send", NoConn, NoChannel)
                                        EXCEPT !.stayed = Range(active_connections),
                                               !.gone = removed_handles,
                                               !.tick_stale =
                                                  Range(StaleConnections(Registry, now))],
                                     active_connections)])
            /\ running' = NoTask
    /\ UNCHANGED <<now, accepted_handles, max_in_flight, pre>>

\* ping_connections returned: cleanup_stale_connections().
background_cleanup ==
    LET t == BackgroundTask IN
    /\ running = t
    /\ calls[t].op = "ping_connections"
    /\ Over(calls[t])
    /\ CleanupStep(t, [Frame("cleanup_stale_connections", "close", NoConn, NoChannel)
                          EXCEPT !.tick_stale = calls[t].tick_stale,
                                 !.tick_pinged = Range(calls[t].attempted)
                                                    \ Range(calls[t].disconnected)],
                   StaleConnections(Registry, now))
    /\ UNCHANGED <<now, accepted_handles, max_in_flight, pre>>

\* cleanup returned: send_realtime_metrics, a broadcast_to_channel.
background_metrics ==
    LET t == BackgroundTask
        channel == "realtime_metrics" IN
    /\ running = t
    /\ calls[t].op = "cleanup_stale_connections"
    /\ Over(calls[t])
    /\ IF channel \notin DOMAIN subscriptions
       THEN /\ Commit(Registry,
                      [calls EXCEPT ![t] =
                         Frame("broadcast_to_channel", "returned", NoConn, channel)])
            /\ running' = t
       ELSE /\ \E x \in SetIterator(Registry, channel).it :
                 Commit(Registry,
                        [calls EXCEPT ![t] =
                           SetAdvance(SetIterator(Registry, channel), x)])
            /\ running' = NoTask
    /\ UNCHANGED <<now, accepted_handles, max_in_flight, pre>>

\* A loop without the except clause: an exception of the iteration ends it.
background_sleep_unless_raised ==
    LET t == BackgroundTask IN
    /\ running = t
    /\ calls[t].op = "broadcast_to_channel"
    /\ calls[t].pc = "returned"
    /\ Commit(Registry,
              [calls EXCEPT ![t] =
                 Frame("websocket_background_task", "sleep", NoConn, NoChannel)])
    /\ running' = NoTask
    /\ UNCHANGED <<now, accepted_handles, max_in_flight, pre>>

\* The broadcast returned, or raised into `except Exception`: sleep(30).
background_sleep ==
    LET t == BackgroundTask IN
    /\ running = t
    /\ calls[t].op = "broadcast_to_channel"
    /\ Over(calls[t])
    /\ Commit(Registry,
              [calls EXCEPT ![t] =
                 Frame("websocket_background_task", "sleep", NoConn, NoChannel)])
    /\ running' = NoTask
    /\ UNCHANGED <<now, accepted_handles, max_in_flight, pre>>

InitSys ==
    /\ active_connections = <<>>
    /\ subscriptions = [ch \in {} |-> {}]
    /\ connection_metadata = [c \in {} |-> {}]
    /\ now = 0
    /\ calls = [t \in Tasks |-> Idle]
    /\ running = NoTask
    /\ accepted_handles = {}
    /\ max_in_flight = Cardinality(Tasks)
    /\ pre = EmptyRegistry
    /\ removed_handles = {}

NextSys ==
    \/ \E websocket \in Conns :
          \/ endpoint_open(websocket)
          \/ endpoint_loop(websocket)
          \/ endpoint_receive(websocket)
    \/ \E t \in Tasks :
          \/ connect_resume(t)
          \/ send_personal_message_resume(t)
          \/ ping_connections_resume(t)
          \/ broadcast_to_channel_resume(t)
    \/ background_ping
    \/ background_cleanup
    \/ background_metrics
    \/ background_sleep

\* Every connection served by websocket_endpoint, beside the maintenance loop.
SpecSys == InitSys /\ [][NextSys]_vars

\* The same system with the clock running.  The clock's unit is the
\* staleness threshold, against which the awaits of an iteration are short:
\* it advances while the maintenance loop is asleep or not yet started.
NextMaint ==
    \/ NextSys
    \/ Tick /\ calls[BackgroundTask].pc \in {"idle", "sleep"}

SpecMaint == InitSys /\ [][NextMaint]_vars

\* The same system on a fair event loop: a task that holds the loop runs on
\* to its next await, and a task whose sleep is over is run again (the
\* loop's ready queue is first in, first out).
RunOn ==
    \/ \E websocket \in Conns : endpoint_loop(websocket)
    \/ background_cleanup
    \/ background_metrics
    \/ background_sleep

SpecLive ==
    /\ InitSys
    /\ [][NextSys]_vars
    /\ WF_vars(RunOn)
    /\ SF_vars(background_ping)

\* ---------------------------------------------------------------- claims
Live(r) == Range(r.active_connections)
InChannel(r, c, ch) == ch \in DOMAIN r.subscriptions /\ c \in r.subscriptions[ch]
HasChannel(r, c, ch) ==
    c \in DOMAIN r.connection_metadata /\ ch \in r.connection_metadata[c].subscriptions
Absent(r, c) ==
    /\ c \notin Live(r)
    /\ c \notin DOMAIN r.connection_metadata
    /\ \A ch \in Channels : ~InChannel(r, c, ch)
\* No call is in progress: every call made so far has run to completion.
AllIdle == \A t \in Tasks : calls[t].op = "idle"
\* The entries of connection d are the same in r and in q.
SameEntries(r, q, d) ==
    /\ d \in Live(r) <=> d \in Live(q)
    /\ d \in DOMAIN r.connection_metadata <=> d \in DOMAIN q.connection_metadata
    /\ d \in DOMAIN r.connection_metadata \cap DOMAIN q.connection_metadata
          => r.connection_metadata[d] = q.connection_metadata[d]
    /\ \A ch \in Channels : InChannel(r, d, ch) <=> InChannel(q, d, ch)
NoDuplicates(s) == \A i, j \in DOMAIN s : s[i] = s[j] => i = j

\* C1 (SpecSeq): after any sequence of connect, disconnect, subscribe and
\* unsubscribe calls run to completion, a connection is in a channel's
\* subscriber set iff the channel is in the connection's own subscription set.
C1_BidirectionalConsistency ==
    AllIdle =>
        \A c \in Conns, ch \in Channels :
            InChannel(Registry, c, ch) <=> HasChannel(Registry, c, ch)

\* C2 (SpecSeq): in every state, so after every operation of the manager, no
\* channel of the channel map has an empty subscriber set.
C2_NoEmptyChannel ==
    \A ch \in DOMAIN subscriptions : subscriptions[ch] # {}

\* C2 witness: an unsubscribe, a disconnect or a stale cleanup has returned
\* and a channel that had an entry when it began has none now.
C2_Witness ==
    \E t \in Tasks :
        /\ calls[t].op \in {"unsubscribe", "disconnect", "cleanup_stale_connections"}
        /\ calls[t].pc = "returned"
        /\ \E ch \in DOMAIN pre.subscriptions : ch \notin DOMAIN subscriptions

\* C3 (Spec): with connect called at most once per handle (connect_call), in
\* every state a connection is in active_connections iff it has a metadata
\* record, and it occurs in active_connections at most once.
C3_LiveIffMetadata ==
    /\ Live(Registry) = DOMAIN connection_metadata
    /\ NoDuplicates(active_connections)

\* C3 witness: while a pass is suspended in a send, one connection is live
\* with its record and another, connected earlier, is gone from both.
C3_Witness ==
    /\ \E t \in Tasks : calls[t].op \in {"broadcast", "ping_connections"}
                         /\ calls[t].pc = "send"
    /\ \E c \in Live(Registry) : c \in DOMAIN connection_metadata
    /\ \E d \in accepted_handles :
          d \notin Live(Registry) /\ d \notin DOMAIN connection_metadata
          /\ \A t \in Tasks : calls[t].op # "connect"

\* C4 (SpecSeq): when disconnect(c) has returned, c is absent from the live
\* list, the metadata map and every channel's subscriber set, and the
\* entries of every other connection are as they were.
C4_DisconnectRemoves ==
    \A t \in Tasks :
        calls[t].op = "disconnect" /\ calls[t].pc = "returned" =>
            /\ Absent(Registry, calls[t].websocket)
            /\ \A d \in Conns \ {calls[t].websocket} : SameEntries(Registry, pre, d)

\* C5 (Spec): when broadcast returns, every connection that was live when it
\* began and that nobody removed meanwhile has been handed a send.
C5_BroadcastReachesAll ==
    \A t \in Tasks :
        calls[t].op = "broadcast" /\ calls[t].pc = "returned" =>
            (calls[t].stayed \cap Live(Registry)) \subseteq Range(calls[t].attempted)

\* C6 (Spec): broadcast_to_channel never raises, and when it is over every
\* subscriber that stayed subscribed throughout has been handed a send.
C6_ChannelBroadcastSafe ==
    \A t \in Tasks :
        calls[t].op = "broadcast_to_channel" /\ Over(calls[t]) =>
            /\ calls[t].pc = "returned"
            /\ calls[t].stayed \subseteq Range(calls[t].attempted)

\* C7 (SpecSeq): broadcast never raises; when it has returned, every
\* connection that was live when it began was handed the payload once,
\* whichever sends failed, and exactly the connections whose send failed
\* have left the live list.
C7_BroadcastIsolatesFailure ==
    \A t \in Tasks :
        calls[t].op = "broadcast" =>
            /\ calls[t].pc # "raised"
            /\ calls[t].pc = "returned" =>
                  /\ calls[t].attempted = pre.active_connections
                  /\ active_connections =
                        SelectSeq(pre.active_connections,
                                  LAMBDA c : c \notin Range(calls[t].disconnected))

\* C7 witness: a broadcast has returned in which the send to one connection
\* failed and a later connection of the list was still sent the payload.
C7_Witness ==
    \E t \in Tasks :
        /\ calls[t].op = "broadcast"
        /\ calls[t].pc = "returned"
        /\ Len(calls[t].attempted) = 2
        /\ calls[t].disconnected = <<calls[t].attempted[1]>>
        /\ calls[t].attempted[2] \in Live(Registry)

\* C8 (SpecSeq): broadcast_to_channel(ch), run alone, hands the payload
\* exactly once to each connection in ch's subscriber set and to no other.
C8_ChannelFanOut ==
    \A t \in Tasks :
        calls[t].op = "broadcast_to_channel" /\ Over(calls[t]) =>
            /\ calls[t].pc = "returned"
            /\ NoDuplicates(calls[t].attempted)
            /\ Range(calls[t].attempted) =
                  IF calls[t].channel \in DOMAIN pre.subscriptions
                  THEN pre.subscriptions[calls[t].channel]
                  ELSE {}

\* C8 witness: a broadcast_to_channel has returned having sent to the one
\* subscriber of its channel while another connection, live and subscribed
\* to another channel only, got nothing.
C8_Witness ==
    \E t \in Tasks :
        /\ calls[t].op = "broadcast_to_channel"
        /\ calls[t].pc = "returned"
        /\ Len(calls[t].attempted) = 1
        /\ \E c \in Live(pre) \ Range(calls[t].attempted) :
              \E ch \in Channels \ {calls[t].channel} : InChannel(pre, c, ch)

\* C9 (SpecSeq): subscribe(c, ch) for a connection c that is not in the live
\* list returns without an error and leaves the registry as it was.
C9_SubscribeUnregisteredIsNoOp ==
    \A t \in Tasks :
        /\ calls[t].op = "subscribe"
        /\ Over(calls[t])
        /\ calls[t].websocket \notin Live(pre)
        => /\ calls[t].pc = "returned"
           /\ Registry = pre

\* C10 (SpecSys): once the handler of a connection has terminated, the
\* connection is absent from the live list, the metadata map and every
\* channel's subscriber set, in that state and in every later one.
C10_TerminatedIsAbsent ==
    \A c \in Conns :
        calls[c].op = "websocket_endpoint" /\ Over(calls[c]) => Absent(Registry, c)

\* A pass over the registry: the three operations that fan a payload out.
Passes == {"broadcast", "broadcast_to_channel", "ping_connections"}

\* C11 (SpecSys): a pass (broadcast, broadcast_to_channel, ping_connections)
\* hands no send to a connection that a disconnect had already removed
\* when the pass began.
C11_NoSendAfterDisconnect ==
    \A t \in Tasks :
        calls[t].op \in Passes => Range(calls[t].attempted) \cap calls[t].gone = {}

\* C12 (SpecMaint): when the cleanup of a maintenance iteration has returned,
\* every connection that was stale when the iteration began (last_ping older
\* than the threshold) is absent from the live list, the metadata map and
\* every channel's subscriber set.
C12_TickEvictsStale ==
    LET f == calls[BackgroundTask] IN
    f.op = "cleanup_stale_connections" /\ f.pc = "returned" =>
        \A c \in f.tick_stale : Absent(Registry, c)

\* C13 (SpecSeq): send_personal_message(c, payload) never raises; when it has
\* returned after a failed send, c is absent from the live list, the
\* metadata map and every channel's subscriber set, and after a successful
\* send the registry is as it was at the call.
C13_SendDirectAbsorbsFailure ==
    \A t \in Tasks :
        calls[t].op = "send_personal_message" =>
            /\ calls[t].pc # "raised"
            /\ calls[t].pc = "returned" =>
                  IF calls[t].disconnected # <<>>
                  THEN Absent(Registry, calls[t].websocket)
                  ELSE Registry = pre

\* C14 (SpecSeq): in every registry state and for every connection c,
\* disconnect(c) applied twice gives the registry that one disconnect(c)
\* gives; a disconnect call always returns, and calling it again on the
\* state it left changes nothing.
C14_DisconnectIdempotent ==
    /\ \A c \in Conns :
          disconnect(disconnect(Registry, c), c) = disconnect(Registry, c)
    /\ \A t \in Tasks :
          calls[t].op = "disconnect" =>
              /\ calls[t].pc = "returned"
              /\ disconnect(Registry, calls[t].websocket) = Registry

\* C14 witness: disconnect has returned for a connection that an earlier
\* disconnect had removed, with the registry, in which another connection
\* is live, as it was at the call.
C14_Witness ==
    \E t \in Tasks :
        /\ calls[t].op = "disconnect"
        /\ calls[t].pc = "returned"
        /\ calls[t].websocket \in removed_handles
        /\ calls[t].websocket \notin Live(pre)
        /\ Live(pre) # {}
        /\ Registry = pre

\* Task t takes, in this step, a call to a send: it enters its first send or
\* moves on from one send of its pass to the next.
Issues(t) ==
    /\ calls'[t].pc = "send"
    /\ \/ calls[t].pc # "send"
       \/ calls'[t].idx # calls[t].idx
       \/ calls'[t].websocket # calls[t].websocket

C16_StructuralOpsAtomic ==
    /\ [](Range(active_connections) = DOMAIN connection_metadata)
    /\ [][\A c \in Conns, ch \in Channels :
             /\ (/\ InChannel(Registry', c, ch) # InChannel(Registry, c, ch)
                 /\ c \in DOMAIN connection_metadata')
                   => HasChannel(Registry', c, ch) = InChannel(Registry', c, ch)
             /\ HasChannel(Registry', c, ch) # HasChannel(Registry, c, ch)
                   => InChannel(Registry', c, ch) = HasChannel(Registry', c, ch)]_vars

\* C16 witness: while a pass is suspended in a send, a subscribe of a
\* registered connection is at its confirmation send with both the channel
\* map and the record updated.
C16_Witness ==
    \E t, u \in Tasks :
        /\ calls[t].op \in Passes
        /\ calls[t].pc = "send"
        /\ calls[u].op = "subscribe"
        /\ calls[u].pc = "send"
        /\ calls[u].websocket \in Live(Registry)
        /\ InChannel(Registry, calls[u].websocket, calls[u].channel)
        /\ HasChannel(Registry, calls[u].websocket, calls[u].channel)

\* C17 (Spec): a step in which a pass (broadcast, broadcast_to_channel,
\* ping_connections) moves on from one send to the next removes nothing from
\* the registry: the connections whose send failed stay registered until
\* the pass has no send left.
C17_FailuresAppliedAfterPass ==
    [][\A t \in Tasks :
          (calls[t].op \in Passes /\ calls[t].pc = "send" /\ Issues(t)) =>
              /\ active_connections' = active_connections
              /\ DOMAIN connection_metadata' = DOMAIN connection_metadata
              /\ subscriptions' = subscriptions]_vars

\* C17 witness: a pass is suspended in its second send after its first send
\* failed, and the connection of the failed send is still registered.
C17_Witness ==
    \E t \in Tasks :
        /\ calls[t].op \in Passes
        /\ calls[t].pc = "send"
        /\ Len(calls[t].attempted) = 2
        /\ calls[t].disconnected = <<calls[t].attempted[1]>>
        /\ calls[t].attempted[1] \in Live(Registry)
        /\ calls[t].attempted[1] \in DOMAIN connection_metadata

\* C18 (SpecSeq): when ping_connections, run without interleaved operations,
\* has returned, every connection that was live when it began and whose
\* ping send succeeded is live with last_ping at a time of the sweep, and
\* every connection whose ping send failed is absent from the live list, the
\* metadata map and every channel's subscriber set.
C18_PingSweep ==
    \A t \in Tasks :
        calls[t].op = "ping_connections" /\ calls[t].pc = "returned" =>
            /\ Range(calls[t].attempted) = Live(pre)
            /\ \A c \in Live(pre) :
                  IF c \in Range(calls[t].disconnected)
                  THEN Absent(Registry, c)
                  ELSE /\ c \in Live(Registry)
                       /\ c \in DOMAIN connection_metadata
                       /\ connection_metadata[c].last_ping \in calls[t].began..now

\* C19 (SpecSeq): cleanup_stale_connections never raises, whatever the
\* closes do; when it has returned, the connections whose last_ping was
\* older than the cutoff at the call are absent from the live list, the
\* metadata map and every channel's subscriber set, and every other
\* connection has the entries it had at the call.
C19_CleanupExactlyStale ==
    \A t \in Tasks :
        calls[t].op = "cleanup_stale_connections" =>
            /\ calls[t].pc # "raised"
            /\ calls[t].pc = "returned" =>
                  \A c \in Conns :
                      IF c \in Range(StaleConnections(pre, calls[t].began))
                      THEN Absent(Registry, c)
                      ELSE SameEntries(Registry, pre, c)

\* C20 (SpecLive): whenever a step of an iteration of
\* websocket_background_task has raised (the channel pass of
\* send_realtime_metrics is the step that can), the loop goes on: the task
\* sleeps and a later iteration is in ping_connections again.
C20_BackgroundLoopSurvives ==
    (calls[BackgroundTask].op = "broadcast_to_channel"
        /\ calls[BackgroundTask].pc = "raised")
      ~> (calls[BackgroundTask].op = "ping_connections")

\* C20 witness: the channel pass of the background task has raised.
C20_Witness ==
    /\ calls[BackgroundTask].op = "broadcast_to_channel"
    /\ calls[BackgroundTask].pc = "raised"
    /\ running = BackgroundTask

\* C21 (SpecSeq): when unsubscribe(c, ch) has returned for a channel ch that
\* was not in c's own subscription set at the call, the live list, the
\* channel map and every metadata record are as they were at the call.
C21_UnsubscribeUnsubscribedIsNoOp ==
    \A t \in Tasks :
        (/\ calls[t].op = "unsubscribe"
         /\ calls[t].pc = "returned"
         /\ ~HasChannel(pre, calls[t].websocket, calls[t].channel))
        => Registry = pre

\* C21, amended (SpecSeq): when unsubscribe(c, ch) has returned for a
\* connection that was neither in ch's subscriber set nor had ch in its own
\* subscription set at the call, the registry is as it was at the call if the
\* confirmation send succeeded, and is that registry with c disconnected if
\* the send failed.
C21_UnsubscribeAbsentChannel ==
    \A t \in Tasks :
        (/\ calls[t].op = "unsubscribe"
         /\ calls[t].pc = "returned"
         /\ ~InChannel(pre, calls[t].websocket, calls[t].channel)
         /\ ~HasChannel(pre, calls[t].websocket, calls[t].channel))
        => Registry = IF calls[t].disconnected = <<>>
                      THEN pre
                      ELSE disconnect(pre, calls[t].websocket)

\* C21 witness: an unsubscribe has returned after a successful send for a
\* live connection that was subscribed to another channel and not to this.
C21_Witness ==
    \E t \in Tasks :
        /\ calls[t].op = "unsubscribe"
        /\ calls[t].pc = "returned"
        /\ calls[t].disconnected = <<>>
        /\ calls[t].websocket \in Live(pre)
        /\ ~InChannel(pre, calls[t].websocket, calls[t].channel)
        /\ ~HasChannel(pre, calls[t].websocket, calls[t].channel)
        /\ \E ch \in Channels : HasChannel(pre, calls[t].websocket, ch)

\* C22 (SpecSeq): for a live connection c that is not subscribed to ch,
\* subscribe(c, ch) followed by unsubscribe(c, ch), with both confirmation
\* sends succeeding, restores the registry exactly: the registry a successful
\* subscribe leaves is one from which the unsubscribe effect gives back the
\* registry of before the subscribe, and a successful unsubscribe leaves
\* exactly the unsubscribe effect on the registry it was called in.
C22_SubscribeUnsubscribeRoundTrip ==
    \A t \in Tasks :
        /\ (/\ calls[t].op = "subscribe"
            /\ calls[t].pc = "returned"
            /\ calls[t].disconnected = <<>>
            /\ calls[t].websocket \in Live(pre)
            /\ ~InChannel(pre, calls[t].websocket, calls[t].channel))
           => /\ InChannel(Registry, calls[t].websocket, calls[t].channel)
              /\ unsubscribe_register(Registry, calls[t].websocket,
                                      calls[t].channel) = pre
        /\ (/\ calls[t].op = "unsubscribe"
            /\ calls[t].pc = "returned"
            /\ calls[t].disconnected = <<>>
            /\ calls[t].websocket \in Live(pre))
           => Registry = unsubscribe_register(pre, calls[t].websocket,
                                              calls[t].channel)

\* C22 witness: an unsubscribe of a live connection has returned after a
\* successful send; the connection was subscribed at the call and is not
\* now, and another connection is still in the channel's set.
C22_Witness ==
    \E t \in Tasks :
        /\ calls[t].op = "unsubscribe"
        /\ calls[t].pc = "returned"
        /\ calls[t].disconnected = <<>>
        /\ calls[t].websocket \in Live(Registry)
        /\ InChannel(pre, calls[t].websocket, calls[t].channel)
        /\ HasChannel(pre, calls[t].websocket, calls[t].channel)
        /\ ~InChannel(Registry, calls[t].websocket, calls[t].channel)
        /\ ~HasChannel(Registry, calls[t].websocket, calls[t].channel)
        /\ calls[t].channel \in DOMAIN subscriptions

\* C23 (SpecSeq): when connect(c) has returned after a successful welcome
\* send, for a handle the registry held nowhere at the call, c is live with
\* a record whose subscription set is empty, c is in no channel's subscriber
\* set, the one message of the call went to c, and the entries of every other
\* connection are as they were.
C23_ConnectRegistersFresh ==
    \A t \in Tasks :
        (/\ calls[t].op = "connect"
         /\ calls[t].pc = "returned"
         /\ calls[t].disconnected = <<>>
         /\ Absent(pre, calls[t].websocket))
        => LET c == calls[t].websocket IN
           /\ c \in Live(Registry)
           /\ c \in DOMAIN connection_metadata
           /\ connection_metadata[c].subscriptions = {}
           /\ \A ch \in Channels : ~InChannel(Registry, c, ch)
           /\ calls[t].attempted = <<c>>
           /\ \A d \in Conns \ {c} : SameEntries(Registry, pre, d)

\* C23 witness: connect has returned after a successful welcome send while
\* another connection is live and subscribed to a channel.
C23_Witness ==
    \E t \in Tasks :
        /\ calls[t].op = "connect"
        /\ calls[t].pc = "returned"
        /\ calls[t].disconnected = <<>>
        /\ Absent(pre, calls[t].websocket)
        /\ calls[t].websocket \in Live(Registry)
        /\ \E d \in Live(pre), ch \in Channels :
              InChannel(pre, d, ch) /\ HasChannel(pre, d, ch)


\* The number of live connections of r whose own subscription set has ch.
SubscriberCount(r, ch) == Cardinality({c \in Live(r) : HasChannel(r, c, ch)})

\* C24 (SpecSeq): whenever get_connection_stats has returned, the snapshot's
\* total_connections is the number of live connections, every channel that
\* some live connection has in its own subscription set is listed with the
\* number of such connections, and no other channel is listed.
C24_StatsCountSubscribers ==
    \A t \in Tasks :
        (calls[t].op = "get_connection_stats" /\ calls[t].pc = "returned")
        => /\ calls[t].stats.total_connections = Cardinality(Live(Registry))
           /\ \A ch \in Channels :
                 IF SubscriberCount(Registry, ch) = 0
                 THEN ch \notin DOMAIN calls[t].stats.channels
                 ELSE /\ ch \in DOMAIN calls[t].stats.channels
                      /\ calls[t].stats.channels[ch] = SubscriberCount(Registry, ch)


\* C25 (Spec): a step in which some task calls get_connection_stats leaves
\* the live list, the channel map and the metadata map as they were, in
\* whatever state the call is made, other calls being suspended or not.
C25_StatsReadOnly ==
    [][\A t \in Tasks :
          (calls[t].op # "get_connection_stats"
             /\ calls'[t].op = "get_connection_stats")
          => /\ active_connections' = active_connections
             /\ subscriptions' = subscriptions
             /\ connection_metadata' = connection_metadata]_vars

\* C25 witness: get_connection_stats has returned a snapshot of a registry
\* with a live connection and a channel entry while another call is
\* suspended in a send.
C25_Witness ==
    \E t \in Tasks :
        /\ calls[t].op = "get_connection_stats"
        /\ calls[t].pc = "returned"
        /\ calls[t].stats.total_connections > 0
        /\ DOMAIN calls[t].stats.channels # {}
        /\ \E u \in Tasks \ {t} : calls[u].pc = "send"


\* C26 (SpecSys): when the handler of c receives a frame of another type
\* than subscribe and unsubscribe, the step leaves the live list, the
\* channel map and the metadata map as they were and starts no send; the
\* handler holds the loop until its next step, which takes it back to
\* receive_text() with the registry still unchanged, so that c, if live
\* when the frame came, is live when the handler receives again.
C26_UnknownTypeIgnored ==
    [][\A c \in Conns :
          /\ (calls[c].pc = "receive" /\ calls'[c].pc = "ignored")
             => /\ Registry' = Registry
                /\ calls'[c].attempted = <<>>
                /\ \A t \in Tasks \ {c} : calls'[t] = calls[t]
                /\ running' = c
          /\ calls[c].pc = "ignored"
             => /\ running = c
                /\ Registry' = Registry
                /\ calls'[c].op = "websocket_endpoint"
                /\ calls'[c].pc \in {"ignored", "receive"}
                /\ \A t \in Tasks \ {c} : calls'[t] = calls[t]]_vars

\* C26 witness: the handler of a live connection with a subscription is
\* passing over a frame while a pass of the background task is suspended.
C26_Witness ==
    \E c \in Conns :
        /\ calls[c].op = "websocket_endpoint"
        /\ calls[c].pc = "ignored"
        /\ c \in Live(Registry)
        /\ \E ch \in Channels : HasChannel(Registry, c, ch)
        /\ calls[BackgroundTask].pc = "send"


\* C27 (SpecSeq): when send_personal_message, broadcast or
\* broadcast_to_channel has returned and none of its sends failed, the live
\* list, the channel map and the metadata map are what they were when it
\* was called.
C27_SuccessfulSendsLeaveRegistry ==
    \A t \in Tasks :
        (/\ calls[t].op \in {"send_personal_message", "broadcast",
                              "broadcast_to_channel"}
         /\ calls[t].pc = "returned"
         /\ calls[t].disconnected = <<>>)
        => Registry = pre

\* C27 witness: a broadcast has returned after two successful sends, in a
\* registry with a channel entry.
C27_Witness ==
    \E t \in Tasks :
        /\ calls[t].op = "broadcast"
        /\ calls[t].pc = "returned"
        /\ calls[t].disconnected = <<>>
        /\ Len(calls[t].attempted) = 2
        /\ DOMAIN subscriptions # {}


\* C28 (SpecSeq): when subscribe(c, ch) was called for a live connection c
\* and its confirmation send failed, subscribe has returned (it has not
\* raised) and c is not in the live list, has no metadata record and is not
\* in ch's subscriber set; ch has no entry if c was not in it at the call
\* or was alone in it, and otherwise has the entry it had without c.
C28_SubscribeFailedSendEvicts ==
    \A t \in Tasks :
        (/\ calls[t].op = "subscribe"
         /\ Over(calls[t])
         /\ calls[t].disconnected # <<>>
         /\ calls[t].websocket \in Live(pre)
         /\ calls[t].websocket \in DOMAIN pre.connection_metadata)
        => LET c == calls[t].websocket
               ch == calls[t].channel
               others == IF ch \in DOMAIN pre.subscriptions
                         THEN pre.subscriptions[ch] \ {c} ELSE {}
           IN  /\ calls[t].pc = "returned"
               /\ c \notin Live(Registry)
               /\ c \notin DOMAIN connection_metadata
               /\ ~InChannel(Registry, c, ch)
               /\ IF others = {}
                  THEN ch \notin DOMAIN subscriptions
                  ELSE /\ ch \in DOMAIN subscriptions
                       /\ subscriptions[ch] = others

\* C28 witness: such a subscribe has returned for a connection that was
\* not in the channel, whose entry the call created and the eviction
\* deleted, another connection being live.
C28_Witness ==
    \E t \in Tasks :
        /\ calls[t].op = "subscribe"
        /\ calls[t].pc = "returned"
        /\ calls[t].disconnected # <<>>
        /\ calls[t].websocket \in Live(pre)
        /\ calls[t].channel \notin DOMAIN pre.subscriptions
        /\ calls[t].channel \notin DOMAIN subscriptions
        /\ Live(Registry) # {}


\* C29 (SpecMaint, where no time passes within an iteration of the
\* background task, so that the threshold is longer than the iteration):
\* the connection that cleanup_stale_connections has just evicted and those
\* it has still to evict are none of the connections whose ping send
\* succeeded in the ping sweep of the same iteration.
C29_PingedNotEvictedAsStale ==
    LET f == calls[BackgroundTask] IN
    f.op = "cleanup_stale_connections"
    => /\ Range(f.stale_connections) \cap f.tick_pinged = {}
       /\ f.pc = "close" => f.websocket \notin f.tick_pinged

\* C29 witness: the cleanup of an iteration has evicted a stale connection
\* while another connection's ping had succeeded in that iteration.
C29_Witness ==
    LET f == calls[BackgroundTask] IN
    /\ f.op = "cleanup_stale_connections"
    /\ f.pc = "close"
    /\ f.websocket \in Conns
    /\ f.tick_pinged # {}


\* C30 (Spec): when ping_connections has returned, every connection it
\* sent a ping to and that was disconnected since the sweep began (by
\* another task while the sweep was suspended in the send to it or in a
\* later one, or by the sweep itself) has no metadata record and is not in
\* the live list, whether its ping send succeeded or failed.
C30_PingDoesNotRecreateRecord ==
    \A t \in Tasks :
        (calls[t].op = "ping_connections" /\ calls[t].pc = "returned")
        => \A c \in Range(calls[t].attempted)
                          \cap (removed_handles \ calls[t].gone) :
              /\ c \notin DOMAIN connection_metadata
              /\ c \notin Live(Registry)

\* C30 witness: a sweep has returned whose only ping went to a connection
\* that was disconnected during that send, and the send succeeded.
C30_Witness ==
    \E t \in Tasks :
        /\ calls[t].op = "ping_connections"
        /\ calls[t].pc = "returned"
        /\ calls[t].disconnected = <<>>
        /\ Len(calls[t].attempted) = 1
        /\ calls[t].attempted[1] \in removed_handles \ calls[t].gone

====
